---- MODULE Spec2Model ----
(***************************************************************************)
(* PriceServiceConnection (pyth-common-js): the websocket subscription     *)
(* session.  The model follows src/pyth-common-js/src/                     *)
(* PriceServiceConnection.ts: the callback registry (a Map from price id   *)
(* to a Set of callbacks, both in insertion order), the wsClient field,    *)
(* the async subscribe / unsubscribe calls with their await points, the    *)
(* hooks startWebSocket binds (onError, onReconnect, onMessage) and        *)
(* closeWebSocket.  ResilientWebSocket and utils are not part of the       *)
(* source at hand: the transport instances, the peer they talk to and      *)
(* removeLeading0xIfExists are modelled from the specification's           *)
(* description of them.                                                    *)
(***************************************************************************)
EXTENDS Integers, Sequences, FiniteSets, Bags, TLC

VARIABLES
    priceFeedCallbacks, \* Map<HexString, Set<cb>>: sequence of [id, cbs], insertion order
    wsClient,           \* Undefined or the id of the current transport instance
    conn,               \* per transport instance: its connection state
    pending,            \* bag of calls suspended at `await this.startWebSocket()`
    unsubAwaitingSend,  \* number of unsubscribe calls suspended at `await ...send(...)`
    disp,               \* the for..of loop of onMessage while it runs
    last,               \* what the last step was and what it handed to the transport
    onWsError,          \* the handler the onWsError field holds
    onError,            \* per transport instance: the handler its onError hook holds
    peer,               \* per transport instance: the ids its server side has subscribed
    wire                \* per transport instance: messages handed over, not yet delivered

vars == <<priceFeedCallbacks, wsClient, conn, pending, unsubAwaitingSend, disp, last,
          onWsError, onError, peer, wire>>

----------------------------------------------------------------------------
(* Bounds of the model *)

MaxTransports == 2      \* transport instances ever constructed
MaxCalls == 1           \* subscribe/unsubscribe calls suspended at once
MaxRaceCalls == 2       \* the same, where only calls and transport events are followed
MaxWire == 2            \* messages an instance holds back while it is not open

(* Values *)

Undefined == 0
Transports == 1..MaxTransports
Callbacks == {"cb1", "cb2"}
\* the callback of the callers that are followed together with the handlers
\* or with the peers
OneCallback == {"cb1"}
NoCb == "undefined"
\* the handler the constructor installs (lines 86-88) and one the caller installs
Handlers == {"default", "custom"}
Unbound == "unbound"
\* hex ids as character sequences; "0xa" and "a" name the same feed
RawIds == {<<"a">>, <<"0", "x", "a">>, <<"b">>}
FeedIds == {<<"a">>, <<"b">>}
\* the priceIds arrays of the calls: one id, two ids, and an id given twice,
\* once with the 0x prefix
PriceIdArrays == {<<<<"a">>>>, <<<<"b">>>>, <<<<"a">>, <<"b">>>>,
                  <<<<"0", "x", "a">>, <<"a">>>>}
verbose == FALSE
wsEndpoint == "ws://endpoint/ws"
FrameKinds == {"notJson", "responseError", "responseSuccess", "badPriceFeed",
               "price_update", "unsupported"}

Range(s) == {s[i] : i \in 1..Len(s)}

----------------------------------------------------------------------------
(* utils.removeLeading0xIfExists *)

removeLeading0xIfExists(id) ==
    IF Len(id) >= 2 /\ id[1] = "0" /\ id[2] = "x"
    THEN SubSeq(id, 3, Len(id))
    ELSE id

\* priceIds.map((priceId) => removeLeading0xIfExists(priceId))
MapRemoveLeading0x(priceIds) ==
    [i \in 1..Len(priceIds) |-> removeLeading0xIfExists(priceIds[i])]

----------------------------------------------------------------------------
(* The Map and Set operations the code uses *)

MapHas(m, id) == \E i \in 1..Len(m) : m[i].id = id

MapIndex(m, id) == CHOOSE i \in 1..Len(m) : m[i].id = id

MapGet(m, id) == m[MapIndex(m, id)].cbs

MapSet(m, id, s) ==
    IF MapHas(m, id)
    THEN [m EXCEPT ![MapIndex(m, id)].cbs = s]
    ELSE Append(m, [id |-> id, cbs |-> s])

MapDelete(m, id) == SelectSeq(m, LAMBDA e : e.id # id)

MapKeys(m) == [i \in 1..Len(m) |-> m[i].id]

SetAddNoDedup(s, cb) == Append(s, cb)

SetAdd(s, cb) == IF cb \in Range(s) THEN s ELSE Append(s, cb)

SetDelete(s, cb) == SelectSeq(s, LAMBDA e : e # cb)

----------------------------------------------------------------------------
(* The transport instances (ResilientWebSocket) *)

\* send(data) on the instance wsClient refers to; `this.wsClient?.send(...)`
\* hands nothing over when wsClient is undefined
Send(ws, message) ==
    IF ws = Undefined THEN <<>> ELSE <<[to |-> ws, message |-> message]>>

\* new ResilientWebSocket(...): the next instance never constructed before
CanConstruct == \E t \in Transports : conn[t] = "None"

NewTransport == CHOOSE t \in Transports :
                    conn[t] = "None" /\ \A u \in Transports : conn[u] = "None" => t <= u

\* the instances that are not closed: they keep reconnecting and keep their hooks
Live == {t \in Transports : conn[t] \in {"Connecting", "Open", "Reconnecting"}}

----------------------------------------------------------------------------
(* subscribePriceFeedUpdates, lines 169-188: the code after the lazy start *)

RECURSIVE SubscribeLoop(_, _, _, _)
SubscribeLoop(m, newPriceIds, priceIds, cb) ==
    IF priceIds = <<>>
    THEN [map |-> m, newPriceIds |-> newPriceIds]
    ELSE LET id == Head(priceIds)
             absent == ~MapHas(m, id)
             m1 == IF absent THEN MapSet(m, id, <<>>) ELSE m
             new1 == IF absent THEN Append(newPriceIds, id) ELSE newPriceIds
             m2 == MapSet(m1, id, SetAdd(MapGet(m1, id), cb))
         IN  SubscribeLoop(m2, new1, Tail(priceIds), cb)

SubscribeBody(m, ws, priceIds, cb) ==
    LET r == SubscribeLoop(m, <<>>, MapRemoveLeading0x(priceIds), cb)
        message == [ids |-> r.newPriceIds, type |-> "subscribe", verbose |-> verbose]
    IN  [map |-> r.map, sent |-> Send(ws, message)]

----------------------------------------------------------------------------
(* unsubscribePriceFeedUpdates, lines 210-241 *)

\* a loop body that leaves the key of a set it has emptied
UnsubscribeOneKeepEmpty(m, id, cb) ==
    IF MapHas(m, id)
    THEN IF cb = NoCb
         THEN [map |-> MapDelete(m, id), idRemoved |-> TRUE]
         ELSE [map |-> MapSet(m, id, SetDelete(MapGet(m, id), cb)), idRemoved |-> FALSE]
    ELSE [map |-> m, idRemoved |-> FALSE]

\* one iteration of the for loop of lines 214-234
UnsubscribeOne(m, id, cb) ==
    IF MapHas(m, id)
    THEN IF cb = NoCb
         THEN [map |-> MapDelete(m, id), idRemoved |-> TRUE]
         ELSE LET m1 == MapSet(m, id, SetDelete(MapGet(m, id), cb))
              IN  IF Len(MapGet(m1, id)) = 0
                  THEN [map |-> MapDelete(m1, id), idRemoved |-> TRUE]
                  ELSE [map |-> m1, idRemoved |-> FALSE]
    ELSE [map |-> m, idRemoved |-> FALSE]

RECURSIVE UnsubscribeLoop(_, _, _, _)
UnsubscribeLoop(m, removedPriceIds, priceIds, cb) ==
    IF priceIds = <<>>
    THEN [map |-> m, removedPriceIds |-> removedPriceIds]
    ELSE LET id == Head(priceIds)
             r == UnsubscribeOne(m, id, cb)
             removed1 == IF r.idRemoved THEN Append(removedPriceIds, id)
                         ELSE removedPriceIds
         IN  UnsubscribeLoop(r.map, removed1, Tail(priceIds), cb)

UnsubscribeBody(m, ws, priceIds, cb) ==
    LET r == UnsubscribeLoop(m, <<>>, MapRemoveLeading0x(priceIds), cb)
        message == [ids |-> r.removedPriceIds, type |-> "unsubscribe"]
    IN  [map |-> r.map, sent |-> Send(ws, message)]

----------------------------------------------------------------------------
(* closeWebSocket, lines 331-335 *)

\* a close that forgets to clear the registry
closeWebSocketKeepRegistry(m, ws, c) ==
    [map |-> m,
     ws |-> Undefined,
     conn |-> IF ws # Undefined THEN [c EXCEPT ![ws] = "Closed"] ELSE c]

\* a close that keeps the reference to the closed instance
closeWebSocketKeepClient(m, ws, c) ==
    [map |-> <<>>,
     ws |-> ws,
     conn |-> IF ws # Undefined THEN [c EXCEPT ![ws] = "Closed"] ELSE c]

closeWebSocket(m, ws, c) ==
    [map |-> <<>>,
     ws |-> Undefined,
     conn |-> IF ws # Undefined THEN [c EXCEPT ![ws] = "Closed"] ELSE c]

----------------------------------------------------------------------------
(* startWebSocket, lines 253-322 *)

\* a check of the endpoint with its condition inverted
startWebSocketThrowsInverted(endpoint) == endpoint # "undefined"

\* lines 254-256: startWebSocket throws when there is no endpoint
startWebSocketThrows(endpoint) == endpoint = "undefined"

\* lines 258-260 and 321: a new instance replaces whatever wsClient held and
\* starts connecting; its onError is the handler onWsError holds at that
\* moment, and the hooks of lines 262-319 are bound to it
startWebSocket(c, e, handler) ==
    [ws |-> NewTransport,
     conn |-> [c EXCEPT ![NewTransport] = "Connecting"],
     onError |-> [e EXCEPT ![NewTransport] = handler]]

\* the onReconnect hook, lines 262-273
onReconnect(m, ws) ==
    IF Len(m) > 0
    THEN Send(ws, [ids |-> MapKeys(m), type |-> "subscribe", verbose |-> verbose])
    ELSE <<>>

\* an onMessage whose catch of the JSON parse error reports nothing
onMessageErrorsParseSilent(kind) ==
    CASE kind = "responseError" -> <<"message.error">>
      [] kind = "badPriceFeed" -> <<"PriceFeed.fromJson">>
      [] OTHER -> <<>>

\* an onMessage that reports every response frame, whatever its status
onMessageErrorsAnyResponse(kind) ==
    CASE kind = "notJson" -> <<"JSON.parse">>
      [] kind \in {"responseError", "responseSuccess"} -> <<"message.error">>
      [] kind = "badPriceFeed" -> <<"PriceFeed.fromJson">>
      [] OTHER -> <<>>

\* the onMessage hook up to the for loop, lines 275-307 and 314-318: the
\* errors it passes to this.onWsError, in order, for a frame of the given kind
onMessageErrors(kind) ==
    CASE kind = "notJson" -> <<"JSON.parse">>
      [] kind = "responseError" -> <<"message.error">>
      [] kind = "badPriceFeed" -> <<"PriceFeed.fromJson">>
      [] OTHER -> <<>>

\* the calls a handler receives for a sequence of errors
HookCalls(handler, errors) ==
    [i \in 1..Len(errors) |-> [to |-> handler, error |-> errors[i]]]

----------------------------------------------------------------------------
(* The for..of loop of onMessage, lines 309-313, over the Set object that    *)
(* was in the map when the loop began.  remaining lists the entries of that  *)
(* Set the iterator has yet to visit; live tells whether that Set object is  *)
(* still the one the map holds for id (delete(id) and clear() drop the Set   *)
(* from the map without touching its entries).  start, invoked, thrown and   *)
(* removed record the loop's history.                                        *)

IdleDisp ==
    [active |-> FALSE, id |-> <<>>, remaining |-> <<>>, live |-> FALSE,
     start |-> <<>>, invoked |-> [c \in Callbacks |-> 0],
     thrown |-> FALSE, removed |-> FALSE]

BeginDisp(m, id) ==
    [IdleDisp EXCEPT !.active = TRUE, !.id = id, !.remaining = MapGet(m, id),
                     !.live = TRUE, !.start = MapGet(m, id)]

\* cb(priceFeed) is called for the next entry
Invoke(d) ==
    [d EXCEPT !.remaining = Tail(@), !.invoked[Head(d.remaining)] = @ + 1]

CanInvoke == disp.active /\ ~disp.thrown /\ disp.remaining # <<>>

\* Set.add on the Set being iterated appends an entry the iterator will visit
DispAfterSubscribe(d, m, priceIds, cb) ==
    IF d.live /\ d.id \in Range(MapRemoveLeading0x(priceIds))
              /\ cb \notin Range(MapGet(m, d.id))
    THEN [d EXCEPT !.remaining = Append(@, cb)]
    ELSE d

\* Set.delete on the Set being iterated removes an entry not yet visited;
\* Map.delete leaves the iterated Set as it is
DispAfterUnsubscribe(d, m, priceIds, cb) ==
    IF d.live /\ d.id \in Range(MapRemoveLeading0x(priceIds))
    THEN IF cb = NoCb
         THEN [d EXCEPT !.live = FALSE, !.removed = TRUE]
         ELSE [d EXCEPT !.remaining = SetDelete(@, cb),
                        !.live = MapHas(UnsubscribeBody(m, Undefined, priceIds, cb).map, d.id),
                        !.removed = TRUE]
    ELSE [d EXCEPT !.removed = TRUE]

DispAfterClose(d) == [d EXCEPT !.live = FALSE, !.removed = TRUE]

----------------------------------------------------------------------------
(* Steps *)

NoLast ==
    [op |-> "init", frame |-> "none", id |-> <<>>, sent |-> <<>>, errs |-> <<>>]

Suspended == BagCardinality(pending) + unsubAwaitingSend

Init ==
    /\ priceFeedCallbacks = <<>>
    /\ wsClient = Undefined
    /\ conn = [t \in Transports |-> "None"]
    /\ pending = EmptyBag
    /\ unsubAwaitingSend = 0
    /\ disp = IdleDisp
    /\ last = NoLast
    /\ onWsError = "default"
    /\ onError = [t \in Transports |-> Unbound]
    /\ peer = [t \in Transports |-> {}]
    /\ wire = [t \in Transports |-> <<>>]

\* subscribePriceFeedUpdates(priceIds, cb) up to its first await: at line 166
\* when there is no wsClient, else at line 188
\* the call is rejected when startWebSocket throws; calls is the number of
\* calls followed while they are suspended
Subscribe(priceIds, cb, inCallback, calls) ==
    /\ IF inCallback THEN CanInvoke ELSE ~disp.active
    /\ UNCHANGED onWsError
    /\ IF wsClient = Undefined
       THEN IF startWebSocketThrows(wsEndpoint)
            THEN /\ last' = [NoLast EXCEPT !.op = "subscribeRejected"]
                 /\ disp' = IF inCallback THEN Invoke(disp) ELSE disp
                 /\ UNCHANGED <<priceFeedCallbacks, wsClient, conn, pending,
                                unsubAwaitingSend, onError>>
            ELSE /\ CanConstruct
                 /\ Suspended < calls
                 /\ LET s == startWebSocket(conn, onError, onWsError)
                    IN  /\ wsClient' = s.ws
                        /\ conn' = s.conn
                        /\ onError' = s.onError
                 /\ pending' = pending (+) SetToBag({[kind |-> "subscribe",
                                                      priceIds |-> priceIds, cb |-> cb]})
                 /\ last' = [NoLast EXCEPT !.op = "subscribeStart"]
                 /\ disp' = IF inCallback THEN Invoke(disp) ELSE disp
                 /\ UNCHANGED <<priceFeedCallbacks, unsubAwaitingSend>>
       ELSE LET b == SubscribeBody(priceFeedCallbacks, wsClient, priceIds, cb)
            IN  /\ priceFeedCallbacks' = b.map
                /\ last' = [NoLast EXCEPT !.op = "subscribe", !.sent = b.sent]
                /\ disp' = IF inCallback
                           THEN DispAfterSubscribe(Invoke(disp), priceFeedCallbacks,
                                                   priceIds, cb)
                           ELSE disp
                /\ UNCHANGED <<wsClient, conn, pending, unsubAwaitingSend, onError>>

\* a subscribe call resumes after line 166 and runs to line 188
SubscribeResume(call) ==
    /\ ~disp.active
    /\ BagIn(call, pending)
    /\ call.kind = "subscribe"
    /\ LET b == SubscribeBody(priceFeedCallbacks, wsClient, call.priceIds, call.cb)
       IN  /\ priceFeedCallbacks' = b.map
           /\ last' = [NoLast EXCEPT !.op = "subscribe", !.sent = b.sent]
    /\ pending' = pending (-) SetToBag({call})
    /\ UNCHANGED <<wsClient, conn, unsubAwaitingSend, disp, onWsError, onError>>

\* unsubscribePriceFeedUpdates(priceIds, cb) up to its first await: at line 207
\* when there is no wsClient, else at line 241
\* the call is rejected when startWebSocket throws
Unsubscribe(priceIds, cb, inCallback, calls) ==
    /\ IF inCallback THEN CanInvoke ELSE ~disp.active
    /\ UNCHANGED onWsError
    /\ IF wsClient = Undefined
       THEN IF startWebSocketThrows(wsEndpoint)
            THEN /\ last' = [NoLast EXCEPT !.op = "unsubscribeRejected"]
                 /\ disp' = IF inCallback THEN Invoke(disp) ELSE disp
                 /\ UNCHANGED <<priceFeedCallbacks, wsClient, conn, pending,
                                unsubAwaitingSend, onError>>
            ELSE /\ CanConstruct
                 /\ Suspended < calls
                 /\ LET s == startWebSocket(conn, onError, onWsError)
                    IN  /\ wsClient' = s.ws
                        /\ conn' = s.conn
                        /\ onError' = s.onError
                 /\ pending' = pending (+) SetToBag({[kind |-> "unsubscribe",
                                                      priceIds |-> priceIds, cb |-> cb]})
                 /\ last' = [NoLast EXCEPT !.op = "unsubscribeStart"]
                 /\ disp' = IF inCallback THEN Invoke(disp) ELSE disp
                 /\ UNCHANGED <<priceFeedCallbacks, unsubAwaitingSend>>
       ELSE LET b == UnsubscribeBody(priceFeedCallbacks, wsClient, priceIds, cb)
            IN  /\ Suspended < calls
                /\ priceFeedCallbacks' = b.map
                /\ unsubAwaitingSend' = unsubAwaitingSend + 1
                /\ last' = [NoLast EXCEPT !.op = "unsubscribe", !.sent = b.sent]
                /\ disp' = IF inCallback
                           THEN DispAfterUnsubscribe(Invoke(disp), priceFeedCallbacks,
                                                     priceIds, cb)
                           ELSE disp
                /\ UNCHANGED <<wsClient, conn, pending, onError>>

\* an unsubscribe call resumes after line 207 and runs to line 241
UnsubscribeResume(call) ==
    /\ ~disp.active
    /\ BagIn(call, pending)
    /\ call.kind = "unsubscribe"
    /\ LET b == UnsubscribeBody(priceFeedCallbacks, wsClient, call.priceIds, call.cb)
       IN  /\ priceFeedCallbacks' = b.map
           /\ last' = [NoLast EXCEPT !.op = "unsubscribe", !.sent = b.sent]
    /\ pending' = pending (-) SetToBag({call})
    /\ unsubAwaitingSend' = unsubAwaitingSend + 1
    /\ UNCHANGED <<wsClient, conn, disp, onWsError, onError>>

\* an unsubscribe call resumes after line 241 and runs lines 243-246
UnsubscribeDone ==
    /\ ~disp.active
    /\ unsubAwaitingSend > 0
    /\ unsubAwaitingSend' = unsubAwaitingSend - 1
    /\ LET r == IF Len(priceFeedCallbacks) = 0
                THEN closeWebSocket(priceFeedCallbacks, wsClient, conn)
                ELSE [map |-> priceFeedCallbacks, ws |-> wsClient, conn |-> conn]
       IN  /\ priceFeedCallbacks' = r.map
           /\ wsClient' = r.ws
           /\ conn' = r.conn
    /\ last' = [NoLast EXCEPT !.op = "unsubscribeDone"]
    /\ UNCHANGED <<pending, disp, onWsError, onError>>

\* the caller calls startWebSocket() itself
StartWebSocket ==
    /\ ~disp.active
    /\ IF startWebSocketThrows(wsEndpoint)
       THEN /\ last' = [NoLast EXCEPT !.op = "startWebSocketRejected"]
            /\ UNCHANGED <<wsClient, conn, onError>>
       ELSE /\ CanConstruct
            /\ LET s == startWebSocket(conn, onError, onWsError)
               IN  /\ wsClient' = s.ws
                   /\ conn' = s.conn
                   /\ onError' = s.onError
            /\ last' = [NoLast EXCEPT !.op = "startWebSocket"]
    /\ UNCHANGED <<priceFeedCallbacks, pending, unsubAwaitingSend, disp, onWsError>>

\* closeWebSocket()
CloseWebSocket(inCallback) ==
    /\ IF inCallback THEN CanInvoke ELSE ~disp.active
    /\ LET r == closeWebSocket(priceFeedCallbacks, wsClient, conn)
       IN  /\ priceFeedCallbacks' = r.map
           /\ wsClient' = r.ws
           /\ conn' = r.conn
    /\ last' = [NoLast EXCEPT !.op = "closeWebSocket"]
    /\ disp' = IF inCallback THEN DispAfterClose(Invoke(disp)) ELSE disp
    /\ UNCHANGED <<pending, unsubAwaitingSend, onWsError, onError>>

----------------------------------------------------------------------------
(* Events of the transport instances *)

\* the first connection of an instance is established
TransportOpen(t) ==
    /\ ~disp.active
    /\ conn[t] = "Connecting"
    /\ conn' = [conn EXCEPT ![t] = "Open"]
    /\ last' = [NoLast EXCEPT !.op = "open"]
    /\ UNCHANGED <<priceFeedCallbacks, wsClient, pending, unsubAwaitingSend, disp,
                   onWsError, onError>>

\* the connection of an instance that was not closed drops
TransportDrop(t) ==
    /\ ~disp.active
    /\ conn[t] = "Open"
    /\ conn' = [conn EXCEPT ![t] = "Reconnecting"]
    /\ last' = [NoLast EXCEPT !.op = "drop"]
    /\ UNCHANGED <<priceFeedCallbacks, wsClient, pending, unsubAwaitingSend, disp,
                   onWsError, onError>>

\* the instance has reconnected and calls its onReconnect hook
TransportReconnect(t) ==
    /\ ~disp.active
    /\ conn[t] = "Reconnecting"
    /\ conn' = [conn EXCEPT ![t] = "Open"]
    /\ last' = [NoLast EXCEPT !.op = "reconnect",
                              !.sent = onReconnect(priceFeedCallbacks, wsClient)]
    /\ UNCHANGED <<priceFeedCallbacks, wsClient, pending, unsubAwaitingSend, disp,
                   onWsError, onError>>

\* an open instance delivers a frame to its onMessage hook; for a price
\* update of a registered id the for loop begins
OnMessage(t, kind, id) ==
    /\ ~disp.active
    /\ conn[t] = "Open"
    /\ disp' = IF kind = "price_update" /\ MapHas(priceFeedCallbacks, id)
               THEN BeginDisp(priceFeedCallbacks, id)
               ELSE disp
    /\ last' = [NoLast EXCEPT !.op = "onMessage", !.frame = kind,
                              !.id = IF kind = "price_update" THEN id ELSE <<>>,
                              !.errs = HookCalls(onWsError, onMessageErrors(kind))]
    /\ UNCHANGED <<priceFeedCallbacks, wsClient, conn, pending, unsubAwaitingSend,
                   onWsError, onError>>

\* the callback invoked next returns without calling the connection
CallbackReturns ==
    /\ CanInvoke
    /\ disp' = Invoke(disp)
    /\ last' = [NoLast EXCEPT !.op = "callback"]
    /\ UNCHANGED <<priceFeedCallbacks, wsClient, conn, pending, unsubAwaitingSend,
                   onWsError, onError>>

\* the callback invoked next throws: nothing in lines 309-313 catches it
CallbackThrows ==
    /\ CanInvoke
    /\ disp' = [Invoke(disp) EXCEPT !.thrown = TRUE]
    /\ last' = [NoLast EXCEPT !.op = "callbackThrow"]
    /\ UNCHANGED <<priceFeedCallbacks, wsClient, conn, pending, unsubAwaitingSend,
                   onWsError, onError>>

\* the for loop is over, or the exception has left onMessage
DispatchEnd ==
    /\ disp.active
    /\ disp.thrown \/ disp.remaining = <<>>
    /\ disp' = IdleDisp
    /\ last' = [NoLast EXCEPT !.op = "dispatchEnd"]
    /\ UNCHANGED <<priceFeedCallbacks, wsClient, conn, pending, unsubAwaitingSend,
                   onWsError, onError>>

----------------------------------------------------------------------------
(* The handlers *)

\* the caller assigns the public field onWsError (line 64)
SetOnWsError(handler) ==
    /\ ~disp.active
    /\ handler # onWsError
    /\ onWsError' = handler
    /\ last' = [NoLast EXCEPT !.op = "setOnWsError"]
    /\ UNCHANGED <<priceFeedCallbacks, wsClient, conn, pending, unsubAwaitingSend,
                   disp, onError>>

\* an instance that is not closed meets a connection-level error and calls
\* the onError hook it holds
TransportError(t) ==
    /\ ~disp.active
    /\ t \in Live
    /\ last' = [NoLast EXCEPT !.op = "transportError",
                              !.errs = HookCalls(onError[t], <<"connection">>)]
    /\ UNCHANGED <<priceFeedCallbacks, wsClient, conn, pending, unsubAwaitingSend,
                   disp, onWsError, onError>>

----------------------------------------------------------------------------
(* The peer of each transport instance: the set of ids the server has        *)
(* subscribed for the instance's connection.  A message handed to an open    *)
(* instance is delivered at once; one handed to an instance that is not open *)
(* waits in wire and is delivered, in order, when the connection is          *)
(* established.  The set is emptied when the connection drops and when the   *)
(* instance is closed.                                                       *)

\* the messages of a step that were handed to instance t
HandedTo(t, sent) ==
    LET mine == SelectSeq(sent, LAMBDA s : s.to = t)
    IN  [i \in 1..Len(mine) |-> mine[i].message]

RECURSIVE Deliver(_, _)
Deliver(ids, messages) ==
    IF messages = <<>>
    THEN ids
    ELSE LET m == Head(messages)
         IN  Deliver(IF m.type = "subscribe" THEN ids \cup Range(m.ids)
                     ELSE ids \ Range(m.ids),
                     Tail(messages))

\* the peer and the wire follow the step the session has taken
Observed ==
    /\ wire' = [t \in Transports |->
                   IF conn'[t] \in {"Connecting", "Reconnecting"}
                   THEN wire[t] \o HandedTo(t, last'.sent)
                   ELSE <<>>]
    /\ peer' = [t \in Transports |->
                   IF conn'[t] = "Open"
                   THEN Deliver(IF conn[t] = "Open" THEN peer[t] ELSE {},
                                wire[t] \o HandedTo(t, last'.sent))
                   ELSE {}]
    /\ \A t \in Transports : Len(wire'[t]) <= MaxWire

\* the peer is not followed
Unobserved == UNCHANGED <<peer, wire>>

----------------------------------------------------------------------------
(* The session with callbacks that call it back, the peer not followed *)

CallerSubscribes ==
    /\ \E priceIds \in PriceIdArrays, cb \in Callbacks :
           Subscribe(priceIds, cb, FALSE, MaxCalls)
    /\ Unobserved

CallbackSubscribes ==
    /\ \E priceIds \in PriceIdArrays, cb \in Callbacks :
           Subscribe(priceIds, cb, TRUE, MaxCalls)
    /\ Unobserved

CallerUnsubscribes ==
    /\ \E priceIds \in PriceIdArrays, cb \in Callbacks \cup {NoCb} :
           Unsubscribe(priceIds, cb, FALSE, MaxCalls)
    /\ Unobserved

CallbackUnsubscribes ==
    /\ \E priceIds \in PriceIdArrays, cb \in Callbacks \cup {NoCb} :
           Unsubscribe(priceIds, cb, TRUE, MaxCalls)
    /\ Unobserved

CallerCloses == CloseWebSocket(FALSE) /\ Unobserved

CallbackCloses == CloseWebSocket(TRUE) /\ Unobserved

CallerStarts == StartWebSocket /\ Unobserved

SubscribeResumes ==
    /\ \E call \in BagToSet(pending) : SubscribeResume(call)
    /\ Unobserved

UnsubscribeResumes ==
    /\ \E call \in BagToSet(pending) : UnsubscribeResume(call)
    /\ Unobserved

UnsubscribeCompletes == UnsubscribeDone /\ Unobserved

TransportOpens == (\E t \in Transports : TransportOpen(t)) /\ Unobserved

TransportDrops == (\E t \in Transports : TransportDrop(t)) /\ Unobserved

TransportReconnects == (\E t \in Transports : TransportReconnect(t)) /\ Unobserved

TransportFails ==
    /\ \E t \in Transports : TransportError(t)
    /\ Unobserved

FrameArrives ==
    /\ \E t \in Transports, kind \in FrameKinds, id \in FeedIds : OnMessage(t, kind, id)
    /\ Unobserved

CallbackReturned == CallbackReturns /\ Unobserved

CallbackThrew == CallbackThrows /\ Unobserved

DispatchEnds == DispatchEnd /\ Unobserved

Next ==
    \/ CallerSubscribes
    \/ CallbackSubscribes
    \/ SubscribeResumes
    \/ CallerUnsubscribes
    \/ CallbackUnsubscribes
    \/ UnsubscribeResumes
    \/ UnsubscribeCompletes
    \/ CallerStarts
    \/ CallerCloses
    \/ CallbackCloses
    \/ TransportOpens
    \/ TransportDrops
    \/ TransportReconnects
    \/ TransportFails
    \/ FrameArrives
    \/ CallbackReturned
    \/ CallbackThrew
    \/ DispatchEnds

Spec == Init /\ [][Next]_vars

----------------------------------------------------------------------------
(* The session whose caller replaces the onWsError handler; callbacks do     *)
(* not call the session back                                                 *)

CallerInstallsHandler ==
    /\ \E handler \in Handlers : SetOnWsError(handler)
    /\ Unobserved

HooksSubscribes ==
    /\ \E priceIds \in PriceIdArrays, cb \in OneCallback :
           Subscribe(priceIds, cb, FALSE, MaxCalls)
    /\ Unobserved

HooksUnsubscribes ==
    /\ \E priceIds \in PriceIdArrays, cb \in OneCallback \cup {NoCb} :
           Unsubscribe(priceIds, cb, FALSE, MaxCalls)
    /\ Unobserved

NextHooks ==
    \/ CallerInstallsHandler
    \/ HooksSubscribes
    \/ SubscribeResumes
    \/ HooksUnsubscribes
    \/ UnsubscribeResumes
    \/ UnsubscribeCompletes
    \/ CallerStarts
    \/ CallerCloses
    \/ TransportOpens
    \/ TransportDrops
    \/ TransportReconnects
    \/ TransportFails
    \/ FrameArrives
    \/ CallbackReturned
    \/ CallbackThrew
    \/ DispatchEnds

SpecHooks == Init /\ [][NextHooks]_vars

----------------------------------------------------------------------------
(* The session and the peers of its transport instances: calls and transport *)
(* events only                                                               *)

WireSubscribes ==
    /\ \E priceIds \in PriceIdArrays, cb \in OneCallback :
           Subscribe(priceIds, cb, FALSE, MaxCalls)
    /\ Observed

WireSubscribeResumes ==
    /\ \E call \in BagToSet(pending) : SubscribeResume(call)
    /\ Observed

WireUnsubscribes ==
    /\ \E priceIds \in PriceIdArrays, cb \in OneCallback \cup {NoCb} :
           Unsubscribe(priceIds, cb, FALSE, MaxCalls)
    /\ Observed

WireUnsubscribeResumes ==
    /\ \E call \in BagToSet(pending) : UnsubscribeResume(call)
    /\ Observed

WireUnsubscribeCompletes == UnsubscribeDone /\ Observed

WireStarts == StartWebSocket /\ Observed

WireCloses == CloseWebSocket(FALSE) /\ Observed

WireOpens == (\E t \in Transports : TransportOpen(t)) /\ Observed

WireDrops == (\E t \in Transports : TransportDrop(t)) /\ Observed

WireReconnects == (\E t \in Transports : TransportReconnect(t)) /\ Observed

NextWire ==
    \/ WireSubscribes
    \/ WireSubscribeResumes
    \/ WireUnsubscribes
    \/ WireUnsubscribeResumes
    \/ WireUnsubscribeCompletes
    \/ WireStarts
    \/ WireCloses
    \/ WireOpens
    \/ WireDrops
    \/ WireReconnects

SpecWire == Init /\ [][NextWire]_vars

----------------------------------------------------------------------------
(* The session with MaxRaceCalls calls followed while they are suspended:    *)
(* calls and transport events only, the peer not followed                    *)

RaceSubscribes ==
    /\ \E priceIds \in PriceIdArrays, cb \in Callbacks :
           Subscribe(priceIds, cb, FALSE, MaxRaceCalls)
    /\ Unobserved

RaceUnsubscribes ==
    /\ \E priceIds \in PriceIdArrays, cb \in Callbacks \cup {NoCb} :
           Unsubscribe(priceIds, cb, FALSE, MaxRaceCalls)
    /\ Unobserved

NextRace ==
    \/ RaceSubscribes
    \/ SubscribeResumes
    \/ RaceUnsubscribes
    \/ UnsubscribeResumes
    \/ UnsubscribeCompletes
    \/ CallerStarts
    \/ CallerCloses
    \/ TransportOpens
    \/ TransportDrops
    \/ TransportReconnects

SpecRace == Init /\ [][NextRace]_vars

----------------------------------------------------------------------------
(* Properties *)

NoDup(s) == \A i, j \in 1..Len(s) : s[i] = s[j] => i = j

Keys(m) == Range(MapKeys(m))

SubscribePending == \E call \in BagToSet(pending) : call.kind = "subscribe"

\* C1: in every reachable state, also in the middle of a dispatch whose
\* callbacks subscribe and unsubscribe, an id is a key of priceFeedCallbacks
\* exactly when it has a non-empty set of callbacks: every key is held once
\* and the set of every key is non-empty.
C1_KeyIffSubscribers ==
    /\ NoDup(MapKeys(priceFeedCallbacks))
    /\ \A i \in 1..Len(priceFeedCallbacks) : Len(priceFeedCallbacks[i].cbs) > 0

\* C1 witness: an unsubscribe made from inside a callback has removed a key
\* and left another key in the registry.
C1_Witness ==
    /\ disp.active
    /\ last.op = "unsubscribe"
    /\ Len(last.sent) = 1
    /\ last.sent[1].message.ids # <<>>
    /\ Len(priceFeedCallbacks) > 0

\* C2: the registry is never non-empty while wsClient is absent, except while
\* a subscribe call is suspended in its lazy start.
C2_RegistryImpliesTransport ==
    Len(priceFeedCallbacks) > 0 => wsClient # Undefined \/ SubscribePending

\* C3: each subscribe call, when it mutates the registry, sends exactly one
\* "subscribe" message whose ids are exactly the ids it added as new keys,
\* each once, and none of the ids tracked before.
C3_SubscribeSendsNewIds ==
    [][last'.op = "subscribe" =>
        /\ Len(last'.sent) = 1
        /\ last'.sent[1].message.type = "subscribe"
        /\ NoDup(last'.sent[1].message.ids)
        /\ Range(last'.sent[1].message.ids)
             = Keys(priceFeedCallbacks') \ Keys(priceFeedCallbacks)]_vars

\* C4: each unsubscribe call, when it mutates the registry, sends exactly one
\* "unsubscribe" message whose ids are exactly the keys it removed, each once.
C4_UnsubscribeSendsRemovedIds ==
    [][last'.op = "unsubscribe" =>
        /\ Len(last'.sent) = 1
        /\ last'.sent[1].message.type = "unsubscribe"
        /\ NoDup(last'.sent[1].message.ids)
        /\ Range(last'.sent[1].message.ids)
             = Keys(priceFeedCallbacks) \ Keys(priceFeedCallbacks')]_vars

\* C5: on every reconnect event the registry is unchanged; when it is
\* non-empty exactly one "subscribe" message listing all its keys is sent,
\* and when it is empty nothing is sent.
C5_ReconnectResendsAllKeys ==
    [][last'.op = "reconnect" =>
        /\ priceFeedCallbacks' = priceFeedCallbacks
        /\ IF Len(priceFeedCallbacks) > 0
           THEN /\ Len(last'.sent) = 1
                /\ last'.sent[1].message.type = "subscribe"
                /\ NoDup(last'.sent[1].message.ids)
                /\ Range(last'.sent[1].message.ids) = Keys(priceFeedCallbacks)
           ELSE last'.sent = <<>>]_vars

\* C6: when an unsubscribe call completes with the registry empty, wsClient
\* is absent and the instance it held is closed; a subscribe call that then
\* finds no wsClient constructs an instance never used before, and no
\* subscribe call hands its message to a closed instance.
C6_TeardownThenFreshTransport ==
    [][/\ (last'.op = "unsubscribeDone" /\ Len(priceFeedCallbacks') = 0) =>
            /\ wsClient' = Undefined
            /\ wsClient # Undefined => conn'[wsClient] = "Closed"
       /\ last'.op = "subscribeStart" =>
            /\ wsClient' # Undefined
            /\ conn[wsClient'] = "None"
            /\ conn'[wsClient'] = "Connecting"
       /\ last'.op = "subscribe" =>
            \A i \in 1..Len(last'.sent) : conn'[last'.sent[i].to] # "Closed"]_vars

\* C6 witness: an unsubscribe call has completed with the registry empty and
\* its transport closed, and no call is suspended.
C6_Witness ==
    /\ last.op = "unsubscribeDone"
    /\ Len(priceFeedCallbacks) = 0
    /\ wsClient = Undefined
    /\ conn[1] = "Closed"
    /\ Suspended = 0

\* C7: when a callback throws during the dispatch of a frame (and no callback
\* has unsubscribed anything), every callback of the id's set is still
\* invoked for that frame.
C7_ThrowDoesNotSkipSiblings ==
    (disp.active /\ disp.thrown /\ ~disp.removed) =>
        \A cb \in Range(disp.start) : disp.invoked[cb] >= 1

C9_OnlyCurrentTransportLive ==
    \A t \in Live : t = wsClient

\* C10: closeWebSocket leaves no wsClient and an empty registry, closes the
\* instance wsClient held, and on a session with no wsClient and an empty
\* registry it changes nothing.
C10_CloseClearsAndIsIdempotent ==
    [][last'.op = "closeWebSocket" =>
        /\ wsClient' = Undefined
        /\ priceFeedCallbacks' = <<>>
        /\ wsClient # Undefined => conn'[wsClient] = "Closed"
        /\ (wsClient = Undefined /\ priceFeedCallbacks = <<>>) =>
               UNCHANGED <<conn, pending, unsubAwaitingSend>>]_vars

\* C10 witness: closeWebSocket has run on a session that had been started:
\* its first instance is closed, nothing is registered and no call is
\* suspended.
C10_Witness ==
    /\ last.op = "closeWebSocket"
    /\ wsClient = Undefined
    /\ priceFeedCallbacks = <<>>
    /\ conn[1] = "Closed"
    /\ Suspended = 0

\* C11: a frame that is not JSON makes onMessage call the installed onWsError
\* handler exactly once, with the parse error; no callback is invoked, the
\* registry, wsClient, the transport instances and the handlers stay as they
\* were, and the session can still take and dispatch the frames that follow.
C11_MalformedFrameReported ==
    /\ [][(last'.op = "onMessage" /\ last'.frame = "notJson") =>
            /\ last'.errs = <<[to |-> onWsError, error |-> "JSON.parse"]>>
            /\ disp' = disp
            /\ ~disp'.active
            /\ UNCHANGED <<priceFeedCallbacks, wsClient, conn, pending,
                           unsubAwaitingSend, onWsError, onError>>]_vars
    /\ [](last.op = "onMessage" /\ last.frame = "notJson" =>
            /\ ENABLED FrameArrives
            /\ \A id \in Keys(priceFeedCallbacks) :
                   ENABLED (/\ \E t \in Transports : OnMessage(t, "price_update", id)
                            /\ disp'.active
                            /\ Unobserved))

\* C11 witness: a frame that is not JSON has arrived while an id is
\* registered, and the error went to the handler.
C11_Witness ==
    /\ last.op = "onMessage"
    /\ last.frame = "notJson"
    /\ Len(last.errs) = 1
    /\ Len(priceFeedCallbacks) > 0
    /\ wsClient # Undefined

C13_ErrorsReachInstalledHandler ==
    [][last'.op \in {"transportError", "onMessage"} =>
        \A i \in 1..Len(last'.errs) : last'.errs[i].to = onWsError']_vars

\* C14: the callbacks invoked for one update frame are exactly the callbacks
\* of the id's set as it was when the for loop began, each exactly once, also
\* when a callback subscribes, unsubscribes or closes while the loop runs
\* (and no callback throws).
C14_DispatchOverSnapshot ==
    (disp.active /\ ~disp.thrown /\ disp.remaining = <<>>) =>
        \A cb \in Callbacks :
            disp.invoked[cb] = IF cb \in Range(disp.start) THEN 1 ELSE 0

\* C15: a transport instance is constructed only by a subscribe call or by a
\* startWebSocket call of the caller; an unsubscribe call on a session with
\* no wsClient constructs none and leaves the session without wsClient.
C15_UnsubscribeStartsNothing ==
    [][/\ (\E t \in Transports : conn[t] = "None" /\ conn'[t] # "None") =>
            last'.op \in {"subscribeStart", "startWebSocket"}
       /\ (wsClient = Undefined /\ wsClient' # Undefined) =>
            last'.op \in {"subscribeStart", "startWebSocket"}]_vars

\* C16: the peer is reconciled with the registry: whenever no call is
\* suspended, the instance wsClient holds is open and every message handed to
\* it has been delivered (the resubscription after its last reconnect
\* included), the set of ids its peer has subscribed is the set of keys of
\* the registry.
Quiescent ==
    /\ Suspended = 0
    /\ wsClient # Undefined
    /\ conn[wsClient] = "Open"
    /\ wire[wsClient] = <<>>

C16_PeerMatchesRegistry ==
    Quiescent => peer[wsClient] = Keys(priceFeedCallbacks)

\* C17: an unsubscribe call that removes the last key of the registry hands
\* its "unsubscribe" message to the instance wsClient holds, which is not
\* closed at that moment; the instance is closed only by the step of the call
\* that follows, never before the message is handed over.
C17_UnsubscribeSentBeforeClose ==
    [][(/\ last'.op = "unsubscribe"
        /\ Len(priceFeedCallbacks) > 0
        /\ Len(priceFeedCallbacks') = 0) =>
            /\ Len(last'.sent) = 1
            /\ last'.sent[1].message.type = "unsubscribe"
            /\ Range(last'.sent[1].message.ids) = Keys(priceFeedCallbacks)
            /\ last'.sent[1].to = wsClient
            /\ conn[last'.sent[1].to] \in {"Connecting", "Open", "Reconnecting"}
            /\ UNCHANGED <<wsClient, conn>>]_vars

\* C18: an update frame for an id invokes only callbacks of that id's set as
\* it is when the frame arrives, and none registered for other ids only; an
\* update frame for an id that is not a key invokes no callback and no
\* handler; the steps of the dispatch (the frame, the callbacks that return or
\* throw, the end of the loop) never change the registry.
C18_UpdateReachesOnlySubscribers ==
    [][/\ (last'.op = "onMessage" /\ last'.frame = "price_update") =>
            /\ last'.errs = <<>>
            /\ IF MapHas(priceFeedCallbacks, last'.id)
               THEN /\ disp'.active
                    /\ disp'.id = last'.id
                    /\ disp'.start = MapGet(priceFeedCallbacks, last'.id)
                    /\ \A cb \in Callbacks : disp'.invoked[cb] = 0
               ELSE disp' = disp /\ ~disp'.active
       /\ disp'.active =>
            \A cb \in Callbacks : disp'.invoked[cb] > 0 => cb \in Range(disp'.start)
       /\ last'.op \in {"onMessage", "callback", "callbackThrow", "dispatchEnd"} =>
            priceFeedCallbacks' = priceFeedCallbacks]_vars

\* C19: a response frame with status "error" makes onMessage call the
\* installed handler exactly once, with the error of the frame; a response
\* frame with status "success" and a frame of an unknown type call neither
\* the handler nor a callback; in all three cases the registry, wsClient and
\* the transport instances stay as they were.
C19_ResponseFrames ==
    [][(/\ last'.op = "onMessage"
        /\ last'.frame \in {"responseError", "responseSuccess", "unsupported"}) =>
            /\ last'.errs = IF last'.frame = "responseError"
                            THEN <<[to |-> onWsError, error |-> "message.error"]>>
                            ELSE <<>>
            /\ disp' = disp
            /\ ~disp'.active
            /\ UNCHANGED <<priceFeedCallbacks, wsClient, conn, pending,
                           unsubAwaitingSend, onWsError, onError>>]_vars

\* C19 witness: a response frame with status "error" has arrived while an id
\* is registered, and its error went to the handler.
C19_Witness ==
    /\ last.op = "onMessage"
    /\ last.frame = "responseError"
    /\ last.errs = <<[to |-> onWsError, error |-> "message.error"]>>
    /\ Len(priceFeedCallbacks) > 0
    /\ wsClient # Undefined
    /\ conn[wsClient] = "Open"

====
